---- MODULE Spec2Model ----
(***************************************************************************)
(* The hidden-station scenario scripts of ns-3.25/scratch:                 *)
(*   hiddenstations.cc, hiddenstations2.cc, hiddenstations3.cc and the two *)
(*   main functions of simple-ht-hidden-stations.cc.                       *)
(* Each script is one main(): parse the options, configure the link,       *)
(* build the topology, assign addresses, install the applications, run     *)
(* the engine up to the horizon and print one throughput line per server.  *)
(* The model follows main() statement group by statement group (pc).       *)
(***************************************************************************)
EXTENDS Integers, Sequences, FiniteSets, TLC

VARIABLES scenario, payloadSize, simulationTime, nMpdus, enableRts, nPackets,
          pc, rtsCtsThreshold, rtsWrites, fragmentationThreshold,
          maxAmpduSize, maxRange, staMac, apMac, position, StaInterface,
          ApInterface, servers, clients, horizon, sentTotal, output

vars == <<scenario, payloadSize, simulationTime, nMpdus, enableRts, nPackets,
          pc, rtsCtsThreshold, rtsWrites, fragmentationThreshold,
          maxAmpduSize, maxRange, staMac, apMac, position, StaInterface,
          ApInterface, servers, clients, horizon, sentTotal, output>>

(***************************************************************************)
(* Fixed-width unsigned arithmetic.  uint32_t and uint64_t values are      *)
(* little-endian sequences of bytes (4 and 8 of them), so that the wrap    *)
(* of the C++ arithmetic at 2^32 and 2^64 is computed, not assumed away.   *)
(***************************************************************************)
Base == 2 ^ 8

U32W == 2 + 2

U64W == 4 + 4

RECURSIVE Bytes(_, _)
Bytes(n, w) == IF w = 0 THEN <<>> ELSE <<n % Base>> \o Bytes(n \div Base, w - 1)

U32(n) == Bytes(n, U32W)

U64(n) == Bytes(n, U64W)

MaxU32 == [i \in 1..U32W |-> Base - 1]

MaxU64 == [i \in 1..U64W |-> Base - 1]

Ext(a, w) == IF Len(a) >= w THEN a ELSE a \o [i \in 1..(w - Len(a)) |-> 0]

Trunc(a, w) == SubSeq(Ext(a, w), 1, w)

IsZero(a) == \A i \in DOMAIN a : a[i] = 0

MaxOf(x, y) == IF x >= y THEN x ELSE y

RECURSIVE AddCarry(_, _, _)
AddCarry(a, b, c) ==
    IF a = <<>> THEN <<c>>
    ELSE LET s == Head(a) + Head(b) + c
         IN  <<s % Base>> \o AddCarry(Tail(a), Tail(b), s \div Base)

\* the exact sum, one byte wider than the wider operand
AddExact(a, b) ==
    LET w == MaxOf(Len(a), Len(b)) IN AddCarry(Ext(a, w), Ext(b, w), 0)

\* the sum as a w-byte unsigned integer (wraps at Base^w)
AddWrap(a, b, w) == Trunc(AddExact(a, b), w)

RECURSIVE MulByte(_, _, _)
MulByte(a, d, c) ==
    IF a = <<>> THEN <<c>>
    ELSE LET p == Head(a) * d + c
         IN  <<p % Base>> \o MulByte(Tail(a), d, p \div Base)

RECURSIVE MulRec(_, _)
MulRec(a, b) ==
    IF b = <<>> THEN <<0>>
    ELSE AddExact(MulByte(a, Head(b), 0), <<0>> \o MulRec(a, Tail(b)))

\* the exact product, Len(a) + Len(b) bytes wide
MulExact(a, b) == Trunc(MulRec(a, b), Len(a) + Len(b))

\* the product as a w-byte unsigned integer (wraps at Base^w)
MulWrap(a, b, w) == Trunc(MulExact(a, b), w)

RECURSIVE LtSame(_, _)
LtSame(a, b) ==
    IF a = <<>> THEN FALSE
    ELSE LET n == Len(a)
         IN  IF a[n] # b[n] THEN a[n] < b[n]
             ELSE LtSame(SubSeq(a, 1, n - 1), SubSeq(b, 1, n - 1))

Lt(a, b) == LET w == MaxOf(Len(a), Len(b)) IN LtSame(Ext(a, w), Ext(b, w))

Eq(a, b) == LET w == MaxOf(Len(a), Len(b)) IN Ext(a, w) = Ext(b, w)

Le(a, b) == Lt(a, b) \/ Eq(a, b)

(***************************************************************************)
(* Program constants.                                                      *)
(***************************************************************************)
DefaultPayloadSize == 1472

DefaultSimulationTime == 10

DefaultNMpdus == 1

RtsDisabledThreshold == 999999

RtsEnabledThreshold == 0

FragmentationLimit == 990000

AmpduOverhead == 200

MaxRange == 5

ServerPort == 9

EchoPacketSize == 1024

EchoBudgetOne == 1

EchoBudgetSet == 3

IntervalSaturating == 20

IntervalEcho == 100000

NSta == 4

NAp == 1

Scenarios == {"hiddenstations", "hiddenstations2", "hiddenstations3",
              "simple-ht-1", "simple-ht-2"}

\* the scripts that declare the nPackets option
HasNPackets(sc) == sc \in {"hiddenstations2", "hiddenstations3"}

\* what a variable holds until the script sets it: no bytes, no coordinates
NoValue == << >>

\* the same for the attributes that hold a number
NoNumber == 0 - 2


(***************************************************************************)
(* Nodes and containers.  wifiStaNodes.Create (4) makes nodes 0..3 and     *)
(* wifiApNode.Create (1) makes node 4.  Container indices are 0-based as   *)
(* in the code; Get (i) on a container of n elements is defined for i < n. *)
(***************************************************************************)
wifiStaNodes == [i \in 1..NSta |-> i - 1]

wifiApNode == [i \in 1..NAp |-> NSta]

ApNode == wifiApNode[1]

Nodes == {wifiStaNodes[i] : i \in 1..NSta} \cup {ApNode}

Sta(i) == [cont |-> "wifiStaNodes", idx |-> i]

Ap(i) == [cont |-> "wifiApNode", idx |-> i]

StaIf(i) == [cont |-> "StaInterface", idx |-> i]

ApIf(i) == [cont |-> "ApInterface", idx |-> i]

StaDev(i) == [cont |-> "staDevices", idx |-> i]

Container(ref) ==
    CASE ref.cont = "wifiStaNodes" -> wifiStaNodes
      [] ref.cont = "wifiApNode" -> wifiApNode
      [] ref.cont = "StaInterface" -> StaInterface
      [] ref.cont = "ApInterface" -> ApInterface
      [] ref.cont = "staDevices" -> wifiStaNodes

\* the index is inside the container: operator[] of the underlying vector
InRange(ref) == ref.idx < Len(Container(ref))

Get(ref) == Container(ref)[ref.idx + 1]

(***************************************************************************)
(* Times.  Seconds (x) of an integral x; simulationTime + 1 is computed in *)
(* uint64_t before it is handed to Seconds.                                *)
(***************************************************************************)
Seconds(n) == U64(n)

\* the stop offset the scripts give an application: Seconds (simulationTime + 1)
AppStop(st) == AddWrap(st, U64(1), U64W)

HorizonNoMargin(st) == st

\* the horizon handed to Simulator::Stop: Seconds (simulationTime + 1)
Horizon(st) == AddWrap(st, U64(1), U64W)

(***************************************************************************)
(* Topology: the position list and the order in which MobilityHelper       *)
(* consumes it (access point first, then the stations).                    *)
(***************************************************************************)
PositionListClose == << <<5, 5>>, <<5, 10>>, <<0, 10>>, <<5, 0>>, <<10, 5>> >>

PositionList == << <<5, 5>>, <<5, 10>>, <<0, 5>>, <<5, 0>>, <<10, 5>> >>

InstallOrderStationsFirst == wifiStaNodes \o wifiApNode

InstallOrder == wifiApNode \o wifiStaNodes

\* ListPositionAllocator::GetNext: the k-th call returns the k-th entry, cyclically
GetNext(k) == PositionList[((k - 1) % Len(PositionList)) + 1]

Placement == [n \in Nodes |->
                GetNext(CHOOSE k \in 1..Len(InstallOrder) : InstallOrder[k] = n)]

Dist2(p, q) == (p[1] - q[1]) * (p[1] - q[1]) + (p[2] - q[2]) * (p[2] - q[2])

(***************************************************************************)
(* Link configuration.                                                     *)
(***************************************************************************)
RtsCtsThresholdSwapped(rts) ==
    IF rts THEN RtsDisabledThreshold ELSE RtsEnabledThreshold

\* if (!enableRts) "999999" else "0"
RtsCtsThresholdFor(rts) ==
    IF ~rts THEN RtsDisabledThreshold ELSE RtsEnabledThreshold

\* maxAmpduSize = nMpdus * (payloadSize + 200), in uint32_t
AmpduSize(n, p) == MulWrap(n, AddWrap(p, U32(AmpduOverhead), U32W), U32W)

\* the same product over the integers
AmpduSizeExact(n, p) == MulExact(n, AddExact(p, U32(AmpduOverhead)))

(***************************************************************************)
(* Traffic plans, one entry per Install call, in program order.            *)
(* A server entry names the node it is installed on; a client entry names  *)
(* the helper it was made from, the helper's remote address and port, and  *)
(* the node.  Intervals are in microseconds.                               *)
(***************************************************************************)
SrvStartStopSwapped(app, kind, node, start, stop) ==
    [app |-> app, kind |-> kind, node |-> node, port |-> ServerPort,
     start |-> stop, stop |-> start]

Srv(app, kind, node, start, stop) ==
    [app |-> app, kind |-> kind, node |-> node, port |-> ServerPort,
     start |-> start, stop |-> stop]

Cl(helper, kind, dst, port, budget, interval, size, node, start, stop) ==
    [helper |-> helper, kind |-> kind, dst |-> dst, port |-> port,
     maxPackets |-> budget, interval |-> interval, size |-> size,
     node |-> node, start |-> start, stop |-> stop]

\* helper.Install (wifiStaNodes): one client per station, in container order
OnAllStations(helper, kind, dst, port, budget, interval, size, start, stop) ==
    [i \in 1..NSta |->
        Cl(helper, kind, dst, port, budget, interval, size, Sta(i - 1), start, stop)]

ServerPlan(sc, st) ==
    CASE sc = "hiddenstations" ->
           [i \in 1..5 |-> Srv(i, "UdpEchoServer", Ap(i - 1), Seconds(0), AppStop(st))]
      [] sc = "hiddenstations2" ->
           [i \in 1..4 |-> Srv(i, "UdpServer", Ap(0), Seconds(0), AppStop(st))]
      [] sc = "hiddenstations3" ->
           [i \in 1..4 |-> Srv(i, "UdpEchoServer", Ap(0),
                               IF i <= 2 THEN Seconds(0) ELSE Seconds(1), AppStop(st))]
      [] sc = "simple-ht-1" ->
           <<Srv(0, "UdpServer", Ap(0), Seconds(0), AppStop(st))>> \o
           [i \in 1..4 |-> Srv(i, "UdpEchoServer", Ap(i), Seconds(1), Seconds(10))]
      [] sc = "simple-ht-2" ->
           [i \in 1..4 |-> Srv(i, "UdpEchoServer", Ap(0), Seconds(0), AppStop(st))]

EchoStartTogether(h) == Seconds(1)

\* clientApp<h>.Start of hiddenstations3.cc: Seconds (1.0), (2.0), (3.0), (4.0)
EchoStart(h) == Seconds(h)

\* the stations hiddenstations.cc installs the echo clients of helper h on
EchoTargets(h) ==
    CASE h = 1 -> <<0, 2, 3, 4>>
      [] h = 2 -> <<0, 1, 3, 4>>
      [] h = 3 -> <<0, 1, 2, 4>>
      [] h = 4 -> <<0, 1, 2, 3>>

ClientPlan(sc, st, p, np) ==
    CASE sc = "hiddenstations" ->
           [k \in 1..16 |->
              LET h == ((k - 1) \div 4) + 1
                  j == ((k - 1) % 4) + 1
              IN  Cl(h, "UdpEchoClient", StaIf(h), ServerPort, MaxU32,
                     IntervalSaturating, p, Sta(EchoTargets(h)[j]),
                     Seconds(1), AppStop(st))]
      [] sc = "hiddenstations2" ->
           [k \in 1..16 |->
              LET h == ((k - 1) \div 4) + 1
              IN  OnAllStations(h, "UdpClient", ApIf(h), ServerPort, np,
                                IntervalSaturating, p, Seconds(1),
                                AppStop(st))[((k - 1) % 4) + 1]]
      [] sc = "hiddenstations3" ->
           [h \in 1..4 |->
              Cl(h, "UdpEchoClient", ApIf(0), ServerPort + h - 1, np,
                 IntervalEcho, p, Sta(h - 1), EchoStart(h), AppStop(st))]
      [] sc = "simple-ht-1" ->
           OnAllStations(0, "UdpClient", ApIf(1), ServerPort, MaxU32,
                         IntervalSaturating, p, Seconds(1), AppStop(st)) \o
           [h \in 1..4 |->
              Cl(h, "UdpEchoClient", StaIf(h), ServerPort, U32(EchoBudgetOne),
                 IntervalEcho, U32(EchoPacketSize), Sta(h), Seconds(1),
                 Seconds(10))]
      [] sc = "simple-ht-2" ->
           [h \in 1..4 |->
              Cl(h, "UdpEchoClient", StaIf(h), ServerPort, MaxU32,
                 IntervalEcho, p, Sta(0), Seconds(1), AppStop(st))]

\* helpers that are constructed (their remote address is read) but never installed
UnusedHelperReads(sc) ==
    IF sc = "hiddenstations" THEN {ApIf(i) : i \in 0..4} ELSE {}

\* the device indices handed to EnablePcap
PcapReads(sc) ==
    CASE sc \in {"hiddenstations2", "simple-ht-2"} ->
           {StaDev(i) : i \in 0..4}
      [] sc = "hiddenstations3" ->
           {StaDev(i) : i \in 0..3}
      [] OTHER -> {StaDev(i) : i \in 0..1}

ConfigSetBeforeInstall(sc, cls) == cls

\* Config::Set of MaxPackets on every installed UdpEchoClient (hiddenstations3)
ConfigSetMaxPackets(sc, cls) ==
    IF sc = "hiddenstations3"
    THEN [k \in DOMAIN cls |->
            IF cls[k].kind = "UdpEchoClient"
            THEN [cls[k] EXCEPT !.maxPackets = U32(EchoBudgetSet)]
            ELSE cls[k]]
    ELSE cls

(***************************************************************************)
(* Out-of-range container reads.  Get (i) and GetAddress (i) index the     *)
(* underlying vector unchecked, so a read past the end is undefined: the   *)
(* process may die there, or go on with whatever the slot holds.  That     *)
(* value is Indeterminate: it may be any node, address or count, or none,  *)
(* and nothing may be concluded from it.  (Nodes and assigned addresses    *)
(* are numbered from 0 and 1, so the value below is none of them.)         *)
(***************************************************************************)
Indeterminate == 0 - 1

\* an Indeterminate uint32_t
IndeterminateCount == <<Indeterminate>>

\* x and y may denote the same thing
MayEqual(x, y) == x = y \/ x = Indeterminate \/ y = Indeterminate

\* x and y are known to denote the same thing
MustEqual(x, y) == x = y /\ x # Indeterminate

NodeRefs(sc) ==
    LET sp == ServerPlan(sc, simulationTime)
        cp == ClientPlan(sc, simulationTime, payloadSize, nPackets)
    IN  {sp[j].node : j \in DOMAIN sp} \cup {cp[k].node : k \in DOMAIN cp}

AddrRefs(sc) ==
    LET cp == ClientPlan(sc, simulationTime, payloadSize, nPackets)
    IN  {cp[k].dst : k \in DOMAIN cp}

OutOfRange(refs) == {r \in refs : ~InRange(r)}

Resolve(ref) == IF InRange(ref) THEN Get(ref) ELSE Indeterminate

(***************************************************************************)
(* The reported throughput:                                                *)
(*   totalPacketsThrough * payloadSize * 8 / (simulationTime * 1000000.0)  *)
(* The numerator is a product of uint32_t values (the int 8 is converted   *)
(* to unsigned), so it is computed modulo 2^32 before the conversion to    *)
(* double.  The double quotient is kept as the pair (num, den): for a      *)
(* 32-bit numerator and simulationTime * 10^6 below 2^53 both conversions  *)
(* are exact and IEEE division is injective on the quotients, so two       *)
(* doubles are equal exactly when the pairs are equal as fractions.  A     *)
(* zero divisor gives the IEEE specials.                                   *)
(***************************************************************************)
Million == Bytes(1000000, 3)

Quotient(num, den) ==
    IF num = IndeterminateCount
    THEN [kind |-> "indeterminate", num |-> num, den |-> den]
    ELSE IF IsZero(den)
    THEN [kind |-> IF IsZero(num) THEN "nan" ELSE "inf", num |-> num, den |-> den]
    ELSE [kind |-> "finite", num |-> num, den |-> den]

ThroughputWide(c, p, t) ==
    Quotient(IF c = IndeterminateCount THEN c
             ELSE MulExact(MulExact(c, p), <<8>>),
             MulExact(t, Million))

Throughput(c, p, t) ==
    Quotient(IF c = IndeterminateCount THEN c
             ELSE MulWrap(MulWrap(c, p, U32W), U32(8), U32W),
             MulExact(t, Million))

\* two reported values are the same number
SameValue(v, w) ==
    /\ v.kind = w.kind
    /\ v.kind = "finite" => Eq(MulExact(v.num, w.den), MulExact(w.num, v.den))

IsZeroValue(v) == v.kind = "finite" /\ IsZero(v.num)

\* the handles the report reads, in program order, with the labels printed
ReportPlan(sc) ==
    CASE sc = "hiddenstations2" ->
           <<[label |-> " 1Throughput", app |-> 1],
             [label |-> "2 Throughput", app |-> 2],
             [label |-> "3 Throughput", app |-> 3],
             [label |-> "4 Throughput", app |-> 4]>>
      [] sc = "simple-ht-1" ->
           <<[label |-> "ServerApp1 Throughput", app |-> 1],
             [label |-> "ServerApp2 Throughput", app |-> 2],
             [label |-> "ServerApp3 Throughput", app |-> 3],
             [label |-> "ServerApp4 Throughput", app |-> 4]>>
      [] sc = "simple-ht-2" ->
           <<[label |-> "Server 1 Throughput", app |-> 1],
             [label |-> "Server 2 Throughput", app |-> 2],
             [label |-> "Server 3 Throughput", app |-> 3],
             [label |-> "Server 4 Throughput", app |-> 4]>>
      [] OTHER -> <<>>

\* hiddenstations.cc reads the handle serverApp, which it never declares
ReadsUndeclaredHandle(sc) == sc = "hiddenstations"

(***************************************************************************)
(* Bounds of the model and the option values explored.                     *)
(***************************************************************************)
MaxSent == 1

\* packets followed in one run of hiddenstations3 (four clients)
MaxEchoSent == 4

\* packets followed in one run of the first simple-ht scenario (eight clients)
MaxShortSent == 2

PayloadSizes == {U32(DefaultPayloadSize), MaxU32}

SimulationTimes == {U64(0), U64(DefaultSimulationTime), MaxU64}

\* for the echo scripts also a duration shorter than the latest start (4 s)
EchoSimulationTimes == SimulationTimes \cup {U64(3)}

NMpdusValues == {U32(DefaultNMpdus)}

NPacketsValues == {U32(0), U32(5)}

(***************************************************************************)
(* The state after the declarations and cmd.Parse: any accepted option     *)
(* values, nothing configured yet.                                         *)
(***************************************************************************)
Parsed(SC, P, T, M, N) ==
    /\ scenario \in SC
    /\ payloadSize \in P
    /\ simulationTime \in T
    /\ nMpdus \in M
    /\ enableRts \in BOOLEAN
    /\ nPackets \in (IF HasNPackets(scenario) THEN N ELSE {U32(0)})
    /\ pc = "parsed"
    /\ rtsCtsThreshold = NoNumber
    /\ rtsWrites = 0
    /\ fragmentationThreshold = NoNumber
    /\ maxAmpduSize = U32(0)
    /\ maxRange = NoNumber
    /\ staMac = NoValue
    /\ apMac = NoValue
    /\ position = [n \in Nodes |-> NoValue]
    /\ StaInterface = <<>>
    /\ ApInterface = <<>>
    /\ servers = <<>>
    /\ clients = <<>>
    /\ horizon = NoValue
    /\ sentTotal = 0
    /\ output = <<>>

Init == Parsed(Scenarios, PayloadSizes, SimulationTimes, NMpdusValues, NPacketsValues)

\* Config::SetDefault of the two thresholds and of MaxRange; maxAmpduSize
Configure ==
    /\ pc = "parsed"
    /\ rtsCtsThreshold' = RtsCtsThresholdFor(enableRts)
    /\ rtsWrites' = rtsWrites + 1
    /\ fragmentationThreshold' = FragmentationLimit
    /\ maxAmpduSize' = AmpduSize(nMpdus, payloadSize)
    /\ maxRange' = MaxRange
    /\ pc' = "configured"
    /\ UNCHANGED <<scenario, payloadSize, simulationTime, nMpdus, enableRts,
                   nPackets, staMac, apMac, position, StaInterface,
                   ApInterface, servers, clients, horizon, sentTotal, output>>

\* mac.SetType (... "BE_MaxAmpduSize", maxAmpduSize) and wifi.Install, twice
InstallLink ==
    /\ pc = "configured"
    /\ staMac' = maxAmpduSize
    /\ apMac' = maxAmpduSize
    /\ pc' = "linked"
    /\ UNCHANGED <<scenario, payloadSize, simulationTime, nMpdus, enableRts,
                   nPackets, rtsCtsThreshold, rtsWrites, fragmentationThreshold,
                   maxAmpduSize, maxRange, position, StaInterface, ApInterface,
                   servers, clients, horizon, sentTotal, output>>

\* the position list, mobility.Install (wifiApNode), mobility.Install (wifiStaNodes)
InstallMobility ==
    /\ pc = "linked"
    /\ position' = Placement
    /\ pc' = "placed"
    /\ UNCHANGED <<scenario, payloadSize, simulationTime, nMpdus, enableRts,
                   nPackets, rtsCtsThreshold, rtsWrites, fragmentationThreshold,
                   maxAmpduSize, maxRange, staMac, apMac, StaInterface,
                   ApInterface, servers, clients, horizon, sentTotal, output>>

\* address.Assign (staDevices), then address.Assign (apDevice): hosts .1 to .5
AssignAddresses ==
    /\ pc = "placed"
    /\ StaInterface' = [i \in 1..NSta |-> i]
    /\ ApInterface' = [i \in 1..NAp |-> NSta + i]
    /\ pc' = "addressed"
    /\ UNCHANGED <<scenario, payloadSize, simulationTime, nMpdus, enableRts,
                   nPackets, rtsCtsThreshold, rtsWrites, fragmentationThreshold,
                   maxAmpduSize, maxRange, staMac, apMac, position, servers,
                   clients, horizon, sentTotal, output>>

\* the server applications as installed, none having received anything
InstalledServers(sc, st) ==
    LET sp == ServerPlan(sc, st)
    IN  [j \in DOMAIN sp |->
           [app |-> sp[j].app, kind |-> sp[j].kind,
            node |-> Resolve(sp[j].node), port |-> sp[j].port,
            start |-> sp[j].start, stop |-> sp[j].stop,
            received |-> U32(0)]]

\* the client applications as installed, none having sent anything
InstalledClients(sc, st, p, np) ==
    LET cp == ConfigSetMaxPackets(sc, ClientPlan(sc, st, p, np))
    IN  [k \in DOMAIN cp |->
           [helper |-> cp[k].helper, kind |-> cp[k].kind,
            dst |-> Resolve(cp[k].dst), port |-> cp[k].port,
            maxPackets |-> cp[k].maxPackets,
            interval |-> cp[k].interval, size |-> cp[k].size,
            node |-> Resolve(cp[k].node),
            start |-> cp[k].start, stop |-> cp[k].stop,
            sent |-> U32(0), replies |-> U32(0)]]

\* the servers and clients, every helper and Install call of the script
InstallApps ==
    /\ pc = "addressed"
    /\ LET badReads == OutOfRange(NodeRefs(scenario) \cup AddrRefs(scenario)
                                     \cup UnusedHelperReads(scenario))
       IN  \/ /\ badReads # {}
              /\ pc' = "crashed"
              /\ UNCHANGED <<servers, clients>>
           \/ /\ servers' = InstalledServers(scenario, simulationTime)
              /\ clients' = InstalledClients(scenario, simulationTime,
                                             payloadSize, nPackets)
              /\ pc' = "planned"
    /\ UNCHANGED <<scenario, payloadSize, simulationTime, nMpdus, enableRts,
                   nPackets, rtsCtsThreshold, rtsWrites, fragmentationThreshold,
                   maxAmpduSize, maxRange, staMac, apMac, position,
                   StaInterface, ApInterface, horizon, sentTotal, output>>

\* phy.EnablePcap on the access point's device and on staDevices.Get (i)
EnablePcap ==
    /\ pc = "planned"
    /\ \/ pc' = "traced"
       \/ OutOfRange(PcapReads(scenario)) # {} /\ pc' = "crashed"
    /\ UNCHANGED <<scenario, payloadSize, simulationTime, nMpdus, enableRts,
                   nPackets, rtsCtsThreshold, rtsWrites, fragmentationThreshold,
                   maxAmpduSize, maxRange, staMac, apMac, position,
                   StaInterface, ApInterface, servers, clients, horizon,
                   sentTotal, output>>

\* Simulator::Stop (Seconds (simulationTime + 1))
SimulatorStop ==
    /\ pc = "traced"
    /\ horizon' = Horizon(simulationTime)
    /\ pc' = "stopset"
    /\ UNCHANGED <<scenario, payloadSize, simulationTime, nMpdus, enableRts,
                   nPackets, rtsCtsThreshold, rtsWrites, fragmentationThreshold,
                   maxAmpduSize, maxRange, staMac, apMac, position,
                   StaInterface, ApInterface, servers, clients, sentTotal,
                   output>>

(***************************************************************************)
(* The run.  The engine is outside the scripts; what the scripts fix is    *)
(* who may send (a client whose window [start, stop) is not empty and      *)
(* starts before the horizon, within its MaxPackets budget: the client     *)
(* sends once on start and then again while sent < MaxPackets) and where   *)
(* a packet can arrive (a server on the node that holds the destination    *)
(* address, listening on the destination port, and the first such server   *)
(* of its node: a later bind to the same port on the same node fails).     *)
(***************************************************************************)
AddrOf(n) ==
    CASE n = Indeterminate -> Indeterminate
      [] n = ApNode -> ApInterface[1]
      [] OTHER -> StaInterface[n + 1]

Listening(dst, port) ==
    {j \in DOMAIN servers :
        servers[j].port = port /\ MayEqual(AddrOf(servers[j].node), dst)}

\* the servers a packet to (dst, port) can reach
BoundServers(dst, port) ==
    {j \in Listening(dst, port) :
        \A i \in Listening(dst, port) :
            i < j => ~MustEqual(servers[i].node, servers[j].node)}

MaySendIgnoringBudget(c) ==
    /\ Lt(c.start, c.stop)
    /\ Lt(c.start, horizon)

MaySendIgnoringWindow(c) ==
    IsZero(c.sent) \/ Lt(c.sent, c.maxPackets)

MaySend(c) ==
    /\ Lt(c.start, c.stop)
    /\ Lt(c.start, horizon)
    /\ IsZero(c.sent) \/ Lt(c.sent, c.maxPackets)

Inc32(x) == AddWrap(x, U32(1), U32W)

\* Simulator::Run is entered
SimulatorRun ==
    /\ pc = "stopset"
    /\ pc' = "running"
    /\ UNCHANGED <<scenario, payloadSize, simulationTime, nMpdus, enableRts,
                   nPackets, rtsCtsThreshold, rtsWrites, fragmentationThreshold,
                   maxAmpduSize, maxRange, staMac, apMac, position,
                   StaInterface, ApInterface, servers, clients, horizon,
                   sentTotal, output>>

\* client k emits one packet; it is lost, or counted by the bound server,
\* and an echo server's reply to an echo client is lost or received
Emit(k, limit) ==
    /\ pc = "running"
    /\ sentTotal < limit
    /\ MaySend(clients[k])
    /\ sentTotal' = sentTotal + 1
    /\ LET c == clients[k]
       IN  \/ /\ clients' = [clients EXCEPT ![k].sent = Inc32(@)]
              /\ UNCHANGED servers
           \/ \E j \in BoundServers(c.dst, c.port) :
                /\ servers' = [servers EXCEPT ![j].received = Inc32(@)]
                /\ \/ clients' = [clients EXCEPT ![k].sent = Inc32(@)]
                   \/ /\ servers[j].kind = "UdpEchoServer"
                      /\ c.kind = "UdpEchoClient"
                      /\ clients' = [clients EXCEPT ![k].sent = Inc32(@),
                                                    ![k].replies = Inc32(@)]
    /\ UNCHANGED <<scenario, payloadSize, simulationTime, nMpdus, enableRts,
                   nPackets, rtsCtsThreshold, rtsWrites, fragmentationThreshold,
                   maxAmpduSize, maxRange, staMac, apMac, position,
                   StaInterface, ApInterface, horizon, pc, output>>

Transmit(k) == Emit(k, MaxSent)

\* the same event in the runs of the echo scenarios, which are followed further
EchoLimit == IF scenario = "hiddenstations3" THEN MaxEchoSent ELSE MaxShortSent

TransmitEcho(k) == Emit(k, EchoLimit)

\* the servers that are known to hold the address (dst, port)
SurelyBound(dst, port) ==
    {j \in BoundServers(dst, port) : MustEqual(AddrOf(servers[j].node), dst)}

\* the same event on a medium that loses nothing: the packet reaches the
\* server bound to its destination, and an echo server's reply reaches the
\* echo client; a packet to an address and port where no socket is bound is
\* discarded at the destination
Deliver(k) ==
    /\ pc = "running"
    /\ sentTotal < MaxEchoSent
    /\ MaySend(clients[k])
    /\ sentTotal' = sentTotal + 1
    /\ LET c == clients[k]
       IN  \/ /\ SurelyBound(c.dst, c.port) = {}
              /\ clients' = [clients EXCEPT ![k].sent = Inc32(@)]
              /\ UNCHANGED servers
           \/ \E j \in BoundServers(c.dst, c.port) :
                /\ servers' = [servers EXCEPT ![j].received = Inc32(@)]
                /\ IF servers[j].kind = "UdpEchoServer" /\ c.kind = "UdpEchoClient"
                   THEN clients' = [clients EXCEPT ![k].sent = Inc32(@),
                                                   ![k].replies = Inc32(@)]
                   ELSE clients' = [clients EXCEPT ![k].sent = Inc32(@)]
    /\ UNCHANGED <<scenario, payloadSize, simulationTime, nMpdus, enableRts,
                   nPackets, rtsCtsThreshold, rtsWrites, fragmentationThreshold,
                   maxAmpduSize, maxRange, staMac, apMac, position,
                   StaInterface, ApInterface, horizon, pc, output>>

\* Simulator::Run returns at the horizon; Simulator::Destroy
RunReturns ==
    /\ pc = "running"
    /\ pc' = "report"
    /\ UNCHANGED <<scenario, payloadSize, simulationTime, nMpdus, enableRts,
                   nPackets, rtsCtsThreshold, rtsWrites, fragmentationThreshold,
                   maxAmpduSize, maxRange, staMac, apMac, position,
                   StaInterface, ApInterface, servers, clients, horizon,
                   sentTotal, output>>

(***************************************************************************)
(* The report: DynamicCast<UdpServer> (handle.Get (0))->GetReceived (),    *)
(* the throughput, one printed line.  The cast of an application that is   *)
(* not a UdpServer is a null pointer, and the call through it undefined:   *)
(* the process dies or reads an Indeterminate count.  The line keeps the   *)
(* double that is handed to the stream.                                    *)
(***************************************************************************)
ServerOf(app) == CHOOSE j \in DOMAIN servers : servers[j].app = app

Line(label, count) ==
    [label |-> label, count |-> count,
     value |-> Throughput(count, payloadSize, simulationTime)]

ReportLineEarly ==
    /\ pc \in {"running", "report"}
    /\ Len(output) < Len(ReportPlan(scenario))
    /\ LET e == ReportPlan(scenario)[Len(output) + 1]
           s == servers[ServerOf(e.app)]
       IN  IF s.kind = "UdpServer"
           THEN /\ output' = Append(output, Line(e.label, s.received))
                /\ pc' = pc
           ELSE \/ pc' = "crashed" /\ output' = output
                \/ /\ output' = Append(output, Line(e.label, IndeterminateCount))
                   /\ pc' = pc
    /\ UNCHANGED <<scenario, payloadSize, simulationTime, nMpdus, enableRts,
                   nPackets, rtsCtsThreshold, rtsWrites, fragmentationThreshold,
                   maxAmpduSize, maxRange, staMac, apMac, position,
                   StaInterface, ApInterface, servers, clients, horizon,
                   sentTotal>>

ReportLine ==
    /\ pc = "report"
    /\ Len(output) < Len(ReportPlan(scenario))
    /\ LET e == ReportPlan(scenario)[Len(output) + 1]
           s == servers[ServerOf(e.app)]
       IN  IF s.kind = "UdpServer"
           THEN /\ output' = Append(output, Line(e.label, s.received))
                /\ pc' = pc
           ELSE \/ pc' = "crashed" /\ output' = output
                \/ /\ output' = Append(output, Line(e.label, IndeterminateCount))
                   /\ pc' = pc
    /\ UNCHANGED <<scenario, payloadSize, simulationTime, nMpdus, enableRts,
                   nPackets, rtsCtsThreshold, rtsWrites, fragmentationThreshold,
                   maxAmpduSize, maxRange, staMac, apMac, position,
                   StaInterface, ApInterface, servers, clients, horizon,
                   sentTotal>>

\* the report of hiddenstations.cc names a handle the script does not declare:
\* no line can be produced from it
ReportUndeclared ==
    /\ pc = "report"
    /\ ReadsUndeclaredHandle(scenario)
    /\ pc' = "ill-formed"
    /\ UNCHANGED <<scenario, payloadSize, simulationTime, nMpdus, enableRts,
                   nPackets, rtsCtsThreshold, rtsWrites, fragmentationThreshold,
                   maxAmpduSize, maxRange, staMac, apMac, position,
                   StaInterface, ApInterface, servers, clients, horizon,
                   sentTotal, output>>

\* return 0
Finish ==
    /\ pc = "report"
    /\ ~ReadsUndeclaredHandle(scenario)
    /\ Len(output) = Len(ReportPlan(scenario))
    /\ pc' = "done"
    /\ UNCHANGED <<scenario, payloadSize, simulationTime, nMpdus, enableRts,
                   nPackets, rtsCtsThreshold, rtsWrites, fragmentationThreshold,
                   maxAmpduSize, maxRange, staMac, apMac, position,
                   StaInterface, ApInterface, servers, clients, horizon,
                   sentTotal, output>>

Next ==
    \/ Configure
    \/ InstallLink
    \/ InstallMobility
    \/ AssignAddresses
    \/ InstallApps
    \/ EnablePcap
    \/ SimulatorStop
    \/ SimulatorRun
    \/ \E k \in DOMAIN clients : Transmit(k)
    \/ RunReturns
    \/ ReportLine
    \/ ReportUndeclared
    \/ Finish

Spec == Init /\ [][Next]_vars

(***************************************************************************)
(* The link configuration on its own, over a wider range of option values. *)
(***************************************************************************)
LinkPayloadSizes ==
    {U32(0), U32(DefaultPayloadSize), U32(65535), <<56, 255, 255, 255>>, MaxU32}

LinkNMpdus ==
    {U32(0), U32(DefaultNMpdus), U32(8), U32(64), <<0, 0, 0, 128>>, MaxU32}

InitLink ==
    Parsed(Scenarios, LinkPayloadSizes, {U64(DefaultSimulationTime)}, LinkNMpdus,
           {U32(0)})

NextLink == Configure \/ InstallLink

SpecLink == InitLink /\ [][NextLink]_vars

(***************************************************************************)
(* The report on its own: hiddenstations2 when Simulator::Run has          *)
(* returned, over a wider range of received counts.  All four servers are  *)
(* bound to port 9 of the access point, so only the first one counts; the  *)
(* budget nPackets is the largest the option takes.                        *)
(***************************************************************************)
ReportCounts == {U32(0), U32(1), U32(364722), U32(364723), U32(500000)}

ReportPayloadSizes == {U32(12), U32(DefaultPayloadSize), U32(1500)}

ReportTimes == {U64(1), U64(DefaultSimulationTime), U64(100)}

InitReport ==
    /\ scenario = "hiddenstations2"
    /\ payloadSize \in ReportPayloadSizes
    /\ simulationTime \in ReportTimes
    /\ nMpdus = U32(DefaultNMpdus)
    /\ enableRts = FALSE
    /\ nPackets = MaxU32
    /\ pc = "report"
    /\ rtsCtsThreshold = RtsCtsThresholdFor(enableRts)
    /\ rtsWrites = 1
    /\ fragmentationThreshold = FragmentationLimit
    /\ maxAmpduSize = AmpduSize(nMpdus, payloadSize)
    /\ maxRange = MaxRange
    /\ staMac = maxAmpduSize
    /\ apMac = maxAmpduSize
    /\ position = Placement
    /\ StaInterface = [i \in 1..NSta |-> i]
    /\ ApInterface = [i \in 1..NAp |-> NSta + i]
    /\ horizon = Horizon(simulationTime)
    /\ sentTotal = 0
    /\ output = <<>>
    /\ \E c \in ReportCounts :
         /\ servers = [InstalledServers(scenario, simulationTime)
                         EXCEPT ![1].received = c]
         /\ clients = [InstalledClients(scenario, simulationTime, payloadSize,
                                        nPackets)
                         EXCEPT ![1].sent = c]

NextReport == ReportLine \/ Finish

SpecReport == InitReport /\ [][NextReport]_vars

(***************************************************************************)
(* The scripts with bounded echo flows (budgets 3 and 1), their runs       *)
(* followed past the budgets.  The fair specification adds what the engine *)
(* guarantees: the stop event scheduled by Simulator::Stop is processed,   *)
(* and it makes Simulator::Run return.                                     *)
(***************************************************************************)
EchoScenarios == {"hiddenstations3", "simple-ht-1"}

InitEcho ==
    Parsed(EchoScenarios, {U32(DefaultPayloadSize)}, EchoSimulationTimes,
           NMpdusValues, NPacketsValues)

Build ==
    \/ Configure
    \/ InstallLink
    \/ InstallMobility
    \/ AssignAddresses
    \/ InstallApps
    \/ EnablePcap
    \/ SimulatorStop
    \/ SimulatorRun

NextEcho ==
    \/ Build
    \/ \E k \in DOMAIN clients : TransmitEcho(k)
    \/ RunReturns
    \/ ReportLine
    \/ Finish

SpecEcho == InitEcho /\ [][NextEcho]_vars

\* hiddenstations3 alone: every container read of the script is in range
InitEchoBudget ==
    Parsed({"hiddenstations3"}, {U32(DefaultPayloadSize)}, EchoSimulationTimes,
           NMpdusValues, NPacketsValues)

\* hiddenstations3 prints no report
NextEchoBudget ==
    \/ Build
    \/ \E k \in DOMAIN clients : TransmitEcho(k)
    \/ RunReturns
    \/ Finish

SpecEchoBudget == InitEchoBudget /\ [][NextEchoBudget]_vars

FairSpecEcho ==
    InitEchoBudget /\ [][NextEchoBudget]_vars /\ WF_vars(RunReturns)

\* the same runs on a medium that loses nothing
NextLossFree ==
    \/ Build
    \/ \E k \in DOMAIN clients : Deliver(k)
    \/ RunReturns
    \/ Finish

SpecLossFree == InitEchoBudget /\ [][NextLossFree]_vars

(***************************************************************************)
(* The build on its own, up to the entry of Simulator::Run, over more      *)
(* durations: shorter than the latest start (4 s), just below and at the   *)
(* fixed stop of 10 s of the first simple-ht scenario.                     *)
(***************************************************************************)
PlanSimulationTimes == EchoSimulationTimes \cup {U64(9)}

InitPlan ==
    Parsed(Scenarios, {U32(DefaultPayloadSize)}, PlanSimulationTimes,
           NMpdusValues, NPacketsValues)

SpecPlan == InitPlan /\ [][Build]_vars

(***************************************************************************)
(* Properties.                                                             *)
(***************************************************************************)
Built == pc \in {"planned", "traced", "stopset", "running", "report", "done"}

Scheduled == pc \in {"stopset", "running", "report", "done"}

Placed == pc \notin {"parsed", "configured", "linked"}

Stations == {wifiStaNodes[i] : i \in 1..NSta}

AssignedAddrs ==
    {StaInterface[i] : i \in DOMAIN StaInterface}
        \cup {ApInterface[i] : i \in DOMAIN ApInterface}

\* C1: for simulationTime > 0 every reported throughput equals
\* (count * payloadSize * 8) / (simulationTime * 10^6) taken on the exact
\* integer product, for every count the 32-bit counter can hold.
ThroughputLinearInCount ==
    \A i \in DOMAIN output :
        (~IsZero(simulationTime) /\ output[i].count # IndeterminateCount)
            => SameValue(output[i].value,
                         ThroughputWide(output[i].count, payloadSize,
                                        simulationTime))

\* C2: a flow whose ReceivedCount is 0 is reported as exactly 0.0 Mbit/s,
\* whatever payloadSize and simulationTime were given.
ZeroCountReportsZero ==
    \A i \in DOMAIN output :
        IsZero(output[i].count) => IsZeroValue(output[i].value)

\* C3: for nMpdus >= 1 the aggregation byte budget handed to the station
\* and access-point MACs is the exact integer nMpdus * (payloadSize + 200).
AmpduBudgetExact ==
    (pc = "linked" /\ ~IsZero(nMpdus))
        => /\ Eq(staMac, AmpduSizeExact(nMpdus, payloadSize))
           /\ Eq(apMac, AmpduSizeExact(nMpdus, payloadSize))

\* station pairs that mirror each other through the access point
OppositePairs ==
    {pr \in Stations \X Stations :
        /\ pr[1] < pr[2]
        /\ position[pr[1]][1] + position[pr[2]][1] = 2 * position[ApNode][1]
        /\ position[pr[1]][2] + position[pr[2]][2] = 2 * position[ApNode][2]}

\* C4: the access point is at (5,5), every station is at distance exactly
\* R = 5 from it (so within range), and the two pairs of opposite stations
\* are at distance 2R = 10 > R.
AccessPointCentred ==
    Placed =>
        /\ maxRange = 5
        /\ position[ApNode] = <<5, 5>>
        /\ \A n \in Stations :
              Dist2(position[ApNode], position[n]) = maxRange * maxRange
        /\ Cardinality(OppositePairs) = 2
        /\ \A pr \in OppositePairs :
              /\ Dist2(position[pr[1]], position[pr[2]]) = 4 * maxRange * maxRange
              /\ Dist2(position[pr[1]], position[pr[2]]) > maxRange * maxRange

AccessPointCentredWitness == pc = "placed" /\ scenario = "hiddenstations2"

\* C5: every pair of distinct stations is farther apart than the range
\* (squared distance 50 or 100 against 25): all four stations are hidden
\* from one another.
AllStationsHidden ==
    Placed =>
        \A a \in Stations, b \in Stations :
            a # b =>
                /\ Dist2(position[a], position[b]) \in {50, 100}
                /\ Dist2(position[a], position[b]) > maxRange * maxRange

AllStationsHiddenWitness == pc = "running" /\ scenario = "hiddenstations3"

\* the largest frame client c hands to the medium: the MAC splits what
\* exceeds FragmentationThreshold
LargestFrame(c) ==
    IF Lt(U32(fragmentationThreshold), c.size)
    THEN U32(fragmentationThreshold) ELSE c.size

\* C6: the handshake threshold depends on enableRts alone, 0 when set and
\* 999999 when not; it is written once per run; and when the handshake is
\* disabled it is above the size of every frame the scenario sends.
HandshakeThresholdByFlag ==
    pc # "parsed" =>
        /\ enableRts => rtsCtsThreshold = 0
        /\ ~enableRts => rtsCtsThreshold = 999999
        /\ rtsWrites = 1
        /\ ~enableRts =>
              \A k \in DOMAIN clients :
                  Lt(LargestFrame(clients[k]), U32(rtsCtsThreshold))

HandshakeThresholdWitness ==
    /\ pc = "running"
    /\ ~enableRts
    /\ \E k \in DOMAIN clients :
          /\ Lt(U32(RtsDisabledThreshold), clients[k].size)
          /\ ~IsZero(clients[k].sent)

\* C7: every scheduled client has start < stop and stop <= horizon, for
\* every simulationTime.
FlowWindowsValid ==
    Scheduled =>
        \A k \in DOMAIN clients :
            /\ Lt(clients[k].start, clients[k].stop)
            /\ Le(clients[k].stop, horizon)

\* C8 as stated: the horizon is strictly greater than every flow's stop.
HorizonBeyondEveryStop ==
    Scheduled => \A k \in DOMAIN clients : Lt(clients[k].stop, horizon)

\* the four echo flows of the first simple-ht scenario, stopped at a fixed 10 s
FixedStopFlow(c) == scenario = "simple-ht-1" /\ c.kind = "UdpEchoClient"

\* C8: the horizon equals the stop offset of every flow that is stopped at
\* simulationTime + 1 (every flow but the four fixed-stop echo flows of the
\* first simple-ht scenario): it is never smaller, and never strictly
\* greater, than those stops.
HorizonEqualsStops ==
    Scheduled =>
        \A k \in DOMAIN clients :
            IF FixedStopFlow(clients[k])
            THEN clients[k].stop = Seconds(10)
            ELSE /\ clients[k].stop = horizon
                 /\ ~Lt(horizon, clients[k].stop)
                 /\ ~Lt(clients[k].stop, horizon)

HorizonEqualsStopsWitness ==
    /\ pc = "running"
    /\ scenario = "hiddenstations3"
    /\ simulationTime = U64(DefaultSimulationTime)
    /\ Len(clients) = NSta

\* C9: every flow that reaches Simulator::Run has a destination address
\* that was assigned to a node.
FlowAddressesAssigned ==
    pc = "running" => \A k \in DOMAIN clients : clients[k].dst \in AssignedAddrs

\* C10: every saturating flow (UdpClient at interval 0.00002 s) is
\* addressed to the access point and to the port of a counting server
\* installed on the access point.
SaturatingToAccessPoint ==
    Built =>
        \A k \in DOMAIN clients :
            (clients[k].kind = "UdpClient"
                /\ clients[k].interval = IntervalSaturating)
            => /\ clients[k].dst = AddrOf(ApNode)
               /\ \E j \in DOMAIN servers :
                     /\ servers[j].kind = "UdpServer"
                     /\ servers[j].node = ApNode
                     /\ servers[j].port = clients[k].port

\* a continuous flow: a UdpClient at the minimum interval of 0.00002 s
Saturating(c) == c.kind = "UdpClient" /\ c.interval = IntervalSaturating

SaturatingFlows == {k \in DOMAIN clients : Saturating(clients[k])}

\* C11: a scenario with saturating flows has exactly one of them on each
\* station, four in all, each from second 1 to second simulationTime + 1
\* (11 by default), and its horizon is simulationTime + 1 (11 by default).
OneSaturatingFlowPerStation ==
    (Scheduled /\ SaturatingFlows # {}) =>
        /\ Cardinality(SaturatingFlows) = NSta
        /\ \A n \in Stations :
              Cardinality({k \in SaturatingFlows : clients[k].node = n}) = 1
        /\ \A k \in SaturatingFlows :
              /\ clients[k].start = Seconds(1)
              /\ clients[k].stop = AddWrap(simulationTime, U64(1), U64W)
        /\ horizon = AddWrap(simulationTime, U64(1), U64W)
        /\ simulationTime = U64(DefaultSimulationTime) => horizon = Seconds(11)

\* the packets sent so far by the clients ks
RECURSIVE SentBy(_)
SentBy(ks) ==
    IF ks = {} THEN U32(0)
    ELSE LET k == CHOOSE x \in ks : TRUE
         IN  AddExact(clients[k].sent, SentBy(ks \ {k}))

\* the packets counted so far by the servers js
RECURSIVE ReceivedBy(_)
ReceivedBy(js) ==
    IF js = {} THEN U32(0)
    ELSE LET j == CHOOSE x \in js : TRUE
         IN  AddExact(servers[j].received, ReceivedBy(js \ {j}))

CountingServers == {j \in DOMAIN servers : servers[j].kind = "UdpServer"}

\* the saturating flow a counting server was declared for: the clients of
\* the helper that carries the server's number
FlowOf(j) == {k \in SaturatingFlows : clients[k].helper = servers[j].app}

\* C12: at every moment of a run the count of each counting server is at
\* most the number of packets its saturating flow has sent, and the counts
\* of all counting servers together are at most what all flows have sent.
ReceivedWithinSent ==
    pc \in {"running", "report", "done"} =>
        /\ \A j \in CountingServers :
              Le(servers[j].received, SentBy(FlowOf(j)))
        /\ Le(ReceivedBy(CountingServers), SentBy(DOMAIN clients))

EchoFlows == {k \in DOMAIN clients : clients[k].kind = "UdpEchoClient"}

\* C13: an echo client never has sent more requests than its packet budget
\* (the MaxPackets attribute it holds when the run starts), and never has
\* more replies than requests.
EchoWithinBudget ==
    \A k \in EchoFlows :
        /\ Le(clients[k].sent, clients[k].maxPackets)
        /\ Le(clients[k].replies, clients[k].sent)

EchoWithinBudgetWitness ==
    /\ pc = "running"
    /\ scenario = "hiddenstations3"
    /\ sentTotal < EchoLimit
    /\ \E k \in EchoFlows :
          /\ clients[k].sent = clients[k].maxPackets
          /\ Lt(clients[k].start, clients[k].stop)
          /\ Lt(clients[k].start, horizon)

\* C14: on a medium that loses nothing, when the run is over every echo
\* client has received as many replies as it sent requests.
EveryRequestReplied ==
    pc \in {"report", "done"} =>
        \A k \in EchoFlows : clients[k].replies = clients[k].sent

\* C15: an echo client sends only while its budget is not exhausted and
\* its window [start, stop) is open before the horizon, and a run that has
\* started always comes to the return of Simulator::Run.
EchoExchangeTerminates ==
    /\ [][\A k \in EchoFlows :
            clients'[k].sent # clients[k].sent =>
                /\ Lt(clients[k].sent, clients[k].maxPackets)
                /\ Lt(clients[k].start, clients[k].stop)
                /\ Lt(clients[k].start, horizon)]_vars
    /\ (pc = "running") ~> (pc = "report")

EchoExchangeTerminatesWitness ==
    /\ pc = "report"
    /\ \E k \in EchoFlows : clients[k].sent = clients[k].maxPackets
    /\ \E k \in EchoFlows :
          /\ ~Lt(clients[k].start, clients[k].stop)
          /\ IsZero(clients[k].sent)

\* the phases of main: 0 build, 1 Simulator::Run, 2 report, 3 ended early
PhaseOf(p) ==
    CASE p = "running" -> 1
      [] p \in {"report", "done"} -> 2
      [] p \in {"crashed", "ill-formed"} -> 3
      [] OTHER -> 0

\* C16: the phases come in the order build, run, report; a report line is
\* produced (a count is read) only when Simulator::Run has returned, and a
\* received count changes only while Simulator::Run is in progress.
CountersReadAfterRun ==
    [][/\ PhaseOf(pc') >= PhaseOf(pc)
       /\ (PhaseOf(pc') = 1 /\ PhaseOf(pc) # 1) => pc = "stopset"
       /\ (PhaseOf(pc') = 2 /\ PhaseOf(pc) # 2) => pc = "running"
       /\ output' # output => (pc = "report" /\ PhaseOf(pc') >= 2)
       /\ (\E j \in DOMAIN servers :
              servers'[j].received # servers[j].received)
             => (pc = "running" /\ pc' = "running")]_vars

CountersReadAfterRunWitness ==
    /\ pc = "done"
    /\ Len(output) = Len(ReportPlan(scenario))
    /\ \E i \in DOMAIN output :
          output[i].count # IndeterminateCount /\ ~IsZero(output[i].count)

\* the script prints a report
Reports(sc) == ReportPlan(sc) # <<>> \/ ReadsUndeclaredHandle(sc)

\* C19: when a script that reports has ended, its output has one line for
\* each declared server application, in the order of declaration, each
\* under its own label.
OneLinePerFlowInOrder ==
    (pc \in {"done", "ill-formed"} /\ Reports(scenario)) =>
        /\ Len(output) = Len(servers)
        /\ \A i \in DOMAIN output : output[i].count = servers[i].received
        /\ \A i \in DOMAIN output, j \in DOMAIN output :
              i # j => output[i].label # output[j].label

\* C20: the link is installed only with an aggregation-unit count of at
\* least 1.
AggregationUnitCountPositive ==
    pc = "linked" => ~IsZero(nMpdus)

\* the servers whose received count the report reads
ReportedServers ==
    {ServerOf(ReportPlan(scenario)[i].app) : i \in DOMAIN ReportPlan(scenario)}

\* the server declared for the flow of client c: the one that carries the
\* number of the client's helper
OwnServer(c) == {j \in DOMAIN servers : servers[j].app = c.helper}

\* C21: the servers whose counts are reported are distinguishable by node
\* and port, and every counted packet increments exactly one counter, the
\* one of the server declared for the flow of the client that sent it.
CountsBelongToOneFlow ==
    /\ [](Built =>
            \A i \in ReportedServers, j \in ReportedServers :
                i # j => <<servers[i].node, servers[i].port>>
                             # <<servers[j].node, servers[j].port>>)
    /\ [][\A j \in DOMAIN servers :
            servers'[j].received # servers[j].received =>
                /\ \A i \in DOMAIN servers :
                      i # j => servers'[i].received = servers[i].received
                /\ \E k \in DOMAIN clients :
                      /\ clients'[k].sent # clients[k].sent
                      /\ j \in OwnServer(clients[k])]_vars

\* client c is installed on the node that holds its destination address
SelfAddressed(c) == MustEqual(c.dst, AddrOf(c.node))

\* C22: no client application is installed on the node whose own address
\* is the destination address of its flow.
FlowsRelateTwoNodes ==
    Built => \A k \in DOMAIN clients : ~SelfAddressed(clients[k])

\* the size the script gives the container a reference reads
DeclaredSize(ref) ==
    IF ref.cont \in {"wifiStaNodes", "staDevices", "StaInterface"}
    THEN NSta ELSE NAp

\* the container reads of the application section, and those of EnablePcap
InstallReads(sc) == NodeRefs(sc) \cup AddrRefs(sc) \cup UnusedHelperReads(sc)

\* C23: every index the script has used to pick a node, a device or an
\* address is within the container: 0..3 for the station containers, 0 for
\* the access-point containers.
IndicesWithinContainers ==
    /\ (Built \/ pc = "crashed") =>
          \A r \in InstallReads(scenario) : r.idx \in 0..(DeclaredSize(r) - 1)
    /\ Scheduled =>
          \A r \in PcapReads(scenario) : r.idx \in 0..(DeclaredSize(r) - 1)

\* C24: every application the report reads a received count from was
\* installed as a UdpServer, so the checked downcast is never null.
ReportReadsCountingServers ==
    pc = "report" =>
        \A j \in ReportedServers : servers[j].kind = "UdpServer"

\* C25: for every client a server is installed on the node that holds the
\* client's destination address and listens on the client's destination
\* port.
EveryFlowHasServer ==
    Built =>
        \A k \in DOMAIN clients :
            Listening(clients[k].dst, clients[k].port) # {}

RECURSIVE Value(_)
Value(a) == IF a = <<>> THEN 0 ELSE Head(a) + Base * Value(Tail(a))

\* a start offset in microseconds (ns-3 keeps times in 64-bit integer
\* nanoseconds; the start offsets of the scripts are a few seconds)
Micro(t) == Value(t) * Value(Million)

\* the simulated time, in microseconds, at which client c emits its packet
\* number n (0, 1, ...): on Start, and then one Interval after the last
EmissionTime(c, n) == Micro(c.start) + n * c.interval

\* the times at which client c has emitted the packets it has sent so far
EmittedAt(c) == {EmissionTime(c, n) : n \in 0..(Value(c.sent) - 1)}

Protocol(kind) ==
    IF kind \in {"UdpEchoClient", "UdpEchoServer"} THEN "echo" ELSE "udp"

\* the servers client c addresses: the servers of its protocol that listen
\* on its destination port at an address that may be its destination
Targets(c) ==
    {j \in Listening(c.dst, c.port) : Protocol(servers[j].kind) = Protocol(c.kind)}

====
